---- MODULE Spec2Model ----
\* Cart service of the QKart backend (src/src/services/cart.service.js) together with
\* the User model (src/src/models/user.model.js), as a state machine.
\*
\* Every service call is an async function: it runs up to its next await, whether the
\* awaited promise is a database operation or not, and other calls may run in between.
\* One action of the model is one such segment, together with the answer of the
\* database operation it waited for. The persisted collections are `carts` and `users`.
\* A call works on the cart document it fetched (`userCart`) and on the change it made
\* to it in memory (`delta`), which save() sends to the database, and on the user
\* record object its caller handed to it (`userObj`), which the caller may have handed
\* to another call in flight as well.
EXTENDS Integers, Sequences, FiniteSets, TLC

\* ---------------------------------------------------------------- bounds
NumProcs == 2
MaxCalls == 4
MaxQty == 2

\* ---------------------------------------------------------------- constants
\* user.model.js: walletMoney default
DefaultWallet == 500
\* config.default_address, the placeholder address of a new user
DefaultAddress == "DEFAULT_ADDRESS"

Procs == 1..NumProcs
Emails == {"u1"}
Addresses == {DefaultAddress, "123 Main St"}
\* the "products" collection: read-only for the cart service
Products == {[id |-> "p1", cost |-> 100], [id |-> "p2", cost |-> 300]}
\* product identifiers a request may carry ("px" is not in the collection)
ProductIds == {"p1", "p2", "px"}
\* quantities a request may carry: a negative one, zero and a positive one
Quantities == {-1, 0, MaxQty}

NoProduct == [id |-> "", cost |-> 0]
\* a user record object: the fields the cart service reads, and mongoose's
\* bookkeeping of the document (walletMoney modified since the last save; a save()
\* in flight)
NoUser == [email |-> "", walletMoney |-> 0, address |-> "",
           modified |-> FALSE, saving |-> FALSE]
\* what user.save() sends: walletMoney, if it is a modified path
NoUserDelta == [modified |-> FALSE, walletMoney |-> 0]
NoCart == [id |-> 0, email |-> "", cartItems |-> <<>>, v |-> 0]
NoDelta == [kind |-> "none", items |-> <<>>, idx |-> 0, quantity |-> 0]
NoCall == [op |-> "", productId |-> "", quantity |-> 0]
NoResult == [op |-> "", status |-> "", code |-> 0, message |-> ""]
\* the local variables of a call that has not fetched anything yet
NoLocal == [email |-> "", user |-> 0, prod |-> NoProduct, userCart |-> NoCart,
            delta |-> NoDelta, address |-> FALSE, totalBill |-> 0,
            userDelta |-> NoUserDelta]

VARIABLES
    carts,      \* the "carts" collection: a sequence of documents, index = _id
    users,      \* the "users" collection, by email
    userObj,    \* the user record objects held by the calls in flight
    pc,         \* where each call stands
    call,       \* the operation and the arguments of each call in flight
    local,      \* the local variables of each call in flight:
                \*   email     user.email
                \*   user      the user record object checkout was given (0 for the
                \*             other operations, which read user.email only)
                \*   prod      the product document it fetched
                \*   userCart  the cart document it fetched, as it was read
                \*   delta     the change it made in memory to that cart document
                \*   address   checkout's `address`
                \*   totalBill checkout's bill
                \*   userDelta what the user.save() in flight sends
    result,     \* what each finished call returned or threw
    calls,      \* number of calls started so far
    paid,       \* per user, the sum of the bills of the checkout calls that returned
    nonPositiveAdded  \* addProductToCart was called with a quantity <= 0

vars == <<carts, users, userObj, pc, call, local, result, calls, paid, nonPositiveAdded>>

\* ---------------------------------------------------------------- helpers
\* new ApiError(code, message)
ApiError(code, message) ==
    [op |-> "", status |-> "error", code |-> code, message |-> message]

\* a rejected database write (a persistence failure or a mongoose VersionError)
DbError(message) ==
    [op |-> "", status |-> "error", code |-> 500, message |-> message]

\* the call returned its cart document
Resolved ==
    [op |-> "", status |-> "ok", code |-> 200, message |-> ""]

\* the place of updateProduct[0] in cartItems: the index of the first line item of
\* the product (0 if there is none)
FirstIndex(items, productId) ==
    IF \E i \in 1..Len(items) : items[i].product.id = productId
    THEN CHOOSE i \in 1..Len(items) :
            /\ items[i].product.id = productId
            /\ \A j \in 1..(i - 1) : items[j].product.id # productId
    ELSE 0

\* Product.findOne({_id: productId})
ProductFindOne(productId) ==
    IF \E pr \in Products : pr.id = productId
    THEN CHOOSE pr \in Products : pr.id = productId
    ELSE NoProduct

\* the ids of the cart documents of this email
CartIdsOf(email) == {i \in 1..Len(carts) : carts[i].email = email}

\* Cart.findOne({email}): the id of the first matching document in natural
\* (insertion) order, 0 if there is none
CartFindOne(email) ==
    IF CartIdsOf(email) = {} THEN 0
    ELSE CHOOSE i \in CartIdsOf(email) : \A j \in CartIdsOf(email) : i <= j

\* the document a call holds for the cart with this id
CartDoc(i) == [id |-> i, email |-> carts[i].email,
               cartItems |-> carts[i].cartItems, v |-> carts[i].v]

\* cartItems.filter(item => item.product._id == productId)
ItemsOf(items, productId) ==
    LET Match(item) == item.product.id = productId IN SelectSeq(items, Match)

\* cartItems.filter(item => item.product._id != productId)
ItemsWithout(items, productId) ==
    LET Other(item) == item.product.id # productId IN SelectSeq(items, Other)

\* JavaScript truthiness of an array object: `!array` is false for every array
ArrayIsFalsy(items) == FALSE

\* user.hasSetNonDefaultAddress()
hasSetNonDefaultAddress(u) == u.address # DefaultAddress

\* a reduce whose callback leaves the quantity out: sum += item.product.cost
reduce_ignoringQuantity(items, sum) ==
    LET S[i \in 0..Len(items)] ==
            IF i = 0 THEN sum ELSE S[i - 1] + items[i].product.cost
    IN  S[Len(items)]

RECURSIVE reduce(_, _)
\* cartItems.reduce((sum, item) => sum += item.quantity * item.product.cost, 0)
reduce(items, sum) ==
    IF items = <<>> THEN sum
    ELSE reduce(Tail(items), sum + Head(items).quantity * Head(items).product.cost)

\* the cart document in memory: the document as read with the call's change applied
InMemory(doc, d) ==
    CASE d.kind = "push" -> doc.cartItems \o d.items
      [] d.kind = "set"  -> d.items
      [] d.kind = "elem" -> [doc.cartItems EXCEPT ![d.idx].quantity = d.quantity]
      [] OTHER           -> doc.cartItems

\* ---------------------------------------------------------------- persistence
\* Document.save() sends only what changed in memory:
\*   push  cartItems.push(item)            -> $push, __v incremented, no version test
\*   set   cartItems = array               -> $set of the array, tested against __v, __v incremented
\*   elem  cartItems[i].quantity = q       -> $set of cartItems.i.quantity, tested against __v
\*   none  nothing changed                 -> nothing is written, but save() still asks
\*                                            the database and rejects if that fails
\* An assignment of a value equal to the one the document holds (the same quantity,
\* an array with the same line items, a bill of 0) changes nothing.
\* A tested write whose __v is stale is rejected (VersionError).
VersionConflict(doc, d) ==
    d.kind \in {"set", "elem"} /\ carts[doc.id].v # doc.v

\* the "carts" collection after userCart.save()
CartSave(doc, d) ==
    CASE d.kind = "push" ->
            [carts EXCEPT ![doc.id].cartItems = @ \o d.items, ![doc.id].v = @ + 1]
      [] d.kind = "set" ->
            [carts EXCEPT ![doc.id].cartItems = d.items, ![doc.id].v = @ + 1]
      [] d.kind = "elem" ->
            [carts EXCEPT ![doc.id].cartItems[d.idx].quantity = d.quantity]
      [] OTHER -> carts

\* the "carts" collection after Cart.create({email, cartItems: []})
CartCreate(email) ==
    Append(carts, [email |-> email, cartItems |-> <<>>, v |-> 0])

\* the "users" collection after user.save(): walletMoney is the only path checkout
\* modifies, and save() sends modified paths only
UserSave(email, d) ==
    IF d.modified THEN [users EXCEPT ![email].walletMoney = d.walletMoney] ELSE users

\* the record objects once the call p has returned: an object no call in flight holds
\* is gone
Release(objs, p) ==
    LET o == local[p].user IN
    IF o # 0 /\ \A q \in Procs \ {p} : local[q].user # o
    THEN [objs EXCEPT ![o] = NoUser]
    ELSE objs

\* the place of a new record object
FreeSlot ==
    CHOOSE o \in Procs : userObj[o] = NoUser /\ \A k \in 1..(o - 1) : userObj[k] # NoUser

\* ---------------------------------------------------------------- control
\* the call returns or throws r, leaving the record objects as objs: its local
\* variables are gone
FinishWith(p, r, objs) ==
    /\ pc' = [pc EXCEPT ![p] = "done"]
    /\ result' = [result EXCEPT ![p] = [r EXCEPT !.op = call[p].op]]
    /\ call' = [call EXCEPT ![p] = NoCall]
    /\ local' = [local EXCEPT ![p] = NoLocal]
    /\ userObj' = Release(objs, p)

\* the call returns or throws r
Finish(p, r) == FinishWith(p, r, userObj)

\* the call goes on to its next await with the local variables l, leaving the record
\* objects as objs
GotoWith(p, label, l, objs) ==
    /\ pc' = [pc EXCEPT ![p] = label]
    /\ local' = [local EXCEPT ![p] = l]
    /\ userObj' = objs
    /\ UNCHANGED <<call, result>>

\* the call goes on to its next await with the local variables l
Goto(p, label, l) == GotoWith(p, label, l, userObj)

\* a request arrives for an idle worker
Begin(p) ==
    /\ pc[p] = "idle"
    /\ calls < MaxCalls
    /\ calls' = calls + 1

\* no other call is in flight
Quiet(p) == \A q \in Procs \ {p} : pc[q] = "idle"

\* no call is in flight
NoneInFlight == \A q \in Procs : pc[q] = "idle"

\* ---------------------------------------------------------------- getCartByUser
\* the outcome of getCartByUser(user) when Cart.findOne resolves to the cart with id i
\* (i = 0: no cart)
getCartByUser(i) ==
    IF i # 0 THEN Resolved
    ELSE ApiError(404, "User does not have a cart")

\* ---------------------------------------------------------------- addProductToCart
\* the push of line 68 without the test of line 64
addProductToCart_push_noDuplicateCheck(p, doc) ==
    Goto(p, "add_save",
         [local[p] EXCEPT
             !.userCart = doc,
             !.delta = [kind |-> "push",
                        items |-> <<[product |-> local[p].prod,
                                     quantity |-> call[p].quantity]>>,
                        idx |-> 0, quantity |-> 0]])

\* lines 64-68 on the cart document doc: the throw of line 65 or the push of line 68
addProductToCart_push(p, doc) ==
    IF Len(ItemsOf(doc.cartItems, call[p].productId)) # 0
    THEN Finish(p, ApiError(400, "Product already in cart. Use the cart sidebar to update or remove product from cart"))
    ELSE Goto(p, "add_save",
              [local[p] EXCEPT
                  !.userCart = doc,
                  !.delta = [kind |-> "push",
                             items |-> <<[product |-> local[p].prod,
                                          quantity |-> call[p].quantity]>>,
                             idx |-> 0, quantity |-> 0]])

addProductToCart_findProduct(p) ==
    \E email \in Emails, productId \in ProductIds, quantity \in Quantities :
        /\ Begin(p)
        /\ IF ProductFindOne(productId) = NoProduct
           THEN /\ pc' = [pc EXCEPT ![p] = "done"]
                /\ result' = [result EXCEPT ![p] =
                      [ApiError(400, "Product doesn't exist in database")
                          EXCEPT !.op = "addProductToCart"]]
                /\ UNCHANGED <<call, local, userObj>>
           ELSE /\ pc' = [pc EXCEPT ![p] = "add_findCart"]
                /\ call' = [call EXCEPT ![p] = [op |-> "addProductToCart",
                                                productId |-> productId,
                                                quantity |-> quantity]]
                /\ local' = [local EXCEPT ![p] =
                      [NoLocal EXCEPT !.email = email,
                                      !.prod = ProductFindOne(productId)]]
                /\ UNCHANGED <<result, userObj>>
        /\ nonPositiveAdded' = (nonPositiveAdded \/ quantity <= 0)
        /\ UNCHANGED <<carts, users, paid>>

addProductToCart_findCart(p) ==
    /\ pc[p] = "add_findCart"
    /\ LET i == CartFindOne(local[p].email) IN
       IF i = 0
       THEN Goto(p, "add_create", local[p])
       ELSE addProductToCart_push(p, CartDoc(i))
    /\ UNCHANGED <<carts, users, calls, paid, nonPositiveAdded>>

addProductToCart_create(p) ==
    /\ pc[p] = "add_create"
    /\ \E stored \in BOOLEAN :
         IF stored
         THEN /\ carts' = CartCreate(local[p].email)
              /\ addProductToCart_push(p, [id |-> Len(carts) + 1,
                                           email |-> local[p].email,
                                           cartItems |-> <<>>, v |-> 0])
         ELSE /\ Finish(p, DbError("Internal Server Error"))
              /\ UNCHANGED carts
    /\ UNCHANGED <<users, calls, paid, nonPositiveAdded>>

\* await userCart.save() and the return of the call that made the change
userCart_save(p) ==
    \E stored \in BOOLEAN :
        IF stored /\ ~VersionConflict(local[p].userCart, local[p].delta)
        THEN /\ carts' = CartSave(local[p].userCart, local[p].delta)
             /\ Finish(p, Resolved)
        ELSE /\ Finish(p, DbError("save failed"))
             /\ UNCHANGED carts

addProductToCart_save(p) ==
    /\ pc[p] = "add_save"
    /\ userCart_save(p)
    /\ UNCHANGED <<users, calls, paid, nonPositiveAdded>>

\* ---------------------------------------------------------------- updateProductInCart
updateProductInCart_findProduct(p) ==
    \E email \in Emails, productId \in ProductIds, quantity \in Quantities :
        /\ Begin(p)
        /\ IF ProductFindOne(productId) = NoProduct
           THEN /\ pc' = [pc EXCEPT ![p] = "done"]
                /\ result' = [result EXCEPT ![p] =
                      [ApiError(400, "Product doesn't exist in database")
                          EXCEPT !.op = "updateProductInCart"]]
                /\ UNCHANGED <<call, local, userObj>>
           ELSE /\ pc' = [pc EXCEPT ![p] = "upd_findCart"]
                /\ call' = [call EXCEPT ![p] = [op |-> "updateProductInCart",
                                                productId |-> productId,
                                                quantity |-> quantity]]
                /\ local' = [local EXCEPT ![p] =
                      [NoLocal EXCEPT !.email = email,
                                      !.prod = ProductFindOne(productId)]]
                /\ UNCHANGED <<result, userObj>>
        /\ UNCHANGED <<carts, users, paid, nonPositiveAdded>>

\* updateProductInCart without the test of line 115: any quantity is stored
updateProductInCart_findCart_storesAnyQuantity(p) ==
    /\ pc[p] = "upd_findCart"
    /\ LET i == CartFindOne(local[p].email) IN
       IF i = 0
       THEN Finish(p, ApiError(400, "User does not have a cart. Use POST to create cart and add a product"))
       ELSE LET doc == CartDoc(i)
                updateProduct == ItemsOf(doc.cartItems, call[p].productId)
                at == FirstIndex(doc.cartItems, call[p].productId)
            IN  IF Len(updateProduct) = 0
                THEN Finish(p, ApiError(400, "Product not in cart"))
                ELSE Goto(p, "upd_save",
                          [local[p] EXCEPT
                              !.userCart = doc,
                              !.delta = IF doc.cartItems[at].quantity = call[p].quantity
                                        THEN NoDelta
                                        ELSE [kind |-> "elem", items |-> <<>>, idx |-> at,
                                              quantity |-> call[p].quantity]])
    /\ UNCHANGED <<carts, users, calls, paid, nonPositiveAdded>>

updateProductInCart_findCart(p) ==
    /\ pc[p] = "upd_findCart"
    /\ LET i == CartFindOne(local[p].email) IN
       IF i = 0
       THEN Finish(p, ApiError(400, "User does not have a cart. Use POST to create cart and add a product"))
       ELSE LET doc == CartDoc(i)
                updateProduct == ItemsOf(doc.cartItems, call[p].productId)
                at == FirstIndex(doc.cartItems, call[p].productId)
            IN  IF Len(updateProduct) = 0
                THEN Finish(p, ApiError(400, "Product not in cart"))
                ELSE IF call[p].quantity <= 0
                THEN \* return deleteProductFromCart(user, productId)
                     Goto(p, "del_findCart", local[p])
                ELSE Goto(p, "upd_save",
                          [local[p] EXCEPT
                              !.userCart = doc,
                              !.delta = IF doc.cartItems[at].quantity = call[p].quantity
                                        THEN NoDelta
                                        ELSE [kind |-> "elem", items |-> <<>>, idx |-> at,
                                              quantity |-> call[p].quantity]])
    /\ UNCHANGED <<carts, users, calls, paid, nonPositiveAdded>>

updateProductInCart_save(p) ==
    /\ pc[p] = "upd_save"
    /\ userCart_save(p)
    /\ UNCHANGED <<users, calls, paid, nonPositiveAdded>>

\* ---------------------------------------------------------------- deleteProductFromCart
deleteProductFromCart_start(p) ==
    \E email \in Emails, productId \in ProductIds :
        /\ Begin(p)
        /\ pc' = [pc EXCEPT ![p] = "del_findCart"]
        /\ call' = [call EXCEPT ![p] = [op |-> "deleteProductFromCart",
                                        productId |-> productId, quantity |-> 0]]
        /\ local' = [local EXCEPT ![p] = [NoLocal EXCEPT !.email = email]]
        /\ UNCHANGED <<carts, users, userObj, result, paid, nonPositiveAdded>>

deleteProductFromCart_findCart(p) ==
    /\ pc[p] = "del_findCart"
    /\ LET i == CartFindOne(local[p].email) IN
       IF i = 0
       THEN Finish(p, ApiError(400, "User does not have a cart"))
       ELSE LET doc == CartDoc(i)
                updateProduct == ItemsOf(doc.cartItems, call[p].productId)
                kept == ItemsWithout(doc.cartItems, call[p].productId)
            IN  IF ArrayIsFalsy(updateProduct)
                THEN Finish(p, ApiError(400, "Product not in cart"))
                ELSE Goto(p, "del_save",
                          [local[p] EXCEPT
                              !.userCart = doc,
                              !.delta = IF kept = doc.cartItems THEN NoDelta
                                        ELSE [kind |-> "set", items |-> kept,
                                              idx |-> 0, quantity |-> 0]])
    /\ UNCHANGED <<carts, users, calls, paid, nonPositiveAdded>>

deleteProductFromCart_save(p) ==
    /\ pc[p] = "del_save"
    /\ userCart_save(p)
    /\ UNCHANGED <<users, calls, paid, nonPositiveAdded>>

\* ---------------------------------------------------------------- getCartByUser as a request
getCartByUser_start(p) ==
    \E email \in Emails :
        /\ Begin(p)
        /\ pc' = [pc EXCEPT ![p] = "get_findCart"]
        /\ call' = [call EXCEPT ![p] = [op |-> "getCartByUser", productId |-> "", quantity |-> 0]]
        /\ local' = [local EXCEPT ![p] = [NoLocal EXCEPT !.email = email]]
        /\ UNCHANGED <<carts, users, userObj, result, paid, nonPositiveAdded>>

\* lines 20-22: Cart.findOne answers; the cart is returned or the error thrown
getCartByUser_findCart(p) ==
    /\ pc[p] = "get_findCart"
    /\ Finish(p, getCartByUser(CartFindOne(local[p].email)))
    /\ UNCHANGED <<carts, users, calls, paid, nonPositiveAdded>>

\* ---------------------------------------------------------------- checkout
\* checkout(user) is called with a user record object: one just resolved from the
\* "users" collection, or the one another call in flight was given. Lines 174 and
\* 19-20 run at once: getCartByUser reads user.email and sends Cart.findOne.
checkout_start(p) ==
    \E email \in Emails, o \in Procs :
        /\ Begin(p)
        /\ IF userObj[o] = NoUser
           THEN /\ o = FreeSlot
                /\ userObj' = [userObj EXCEPT ![o] =
                      [email |-> email,
                       walletMoney |-> users[email].walletMoney,
                       address |-> users[email].address,
                       modified |-> FALSE, saving |-> FALSE]]
           ELSE /\ userObj[o].email = email
                /\ UNCHANGED userObj
        /\ pc' = [pc EXCEPT ![p] = "co_getCart"]
        /\ call' = [call EXCEPT ![p] = [op |-> "checkout", productId |-> "", quantity |-> 0]]
        /\ local' = [local EXCEPT ![p] = [NoLocal EXCEPT !.email = email, !.user = o]]
        /\ UNCHANGED <<carts, users, result, paid, nonPositiveAdded>>

\* lines 20-22, in getCartByUser: Cart.findOne answers; getCartByUser returns a promise
\* of the cart or throws, and checkout waits for it at line 174
checkout_getCart(p) ==
    /\ pc[p] = "co_getCart"
    /\ LET i == CartFindOne(local[p].email) IN
       Goto(p, "co_cart",
            [local[p] EXCEPT !.userCart = IF i = 0 THEN NoCart ELSE CartDoc(i)])
    /\ UNCHANGED <<carts, users, calls, paid, nonPositiveAdded>>

\* lines 174-180: the await of line 174 ends, with the error of getCartByUser or with
\* the cart; the test of line 175; user.hasSetNonDefaultAddress() reads user.address
\* and checkout waits for its promise
checkout_cart(p) ==
    /\ pc[p] = "co_cart"
    /\ IF local[p].userCart = NoCart
       THEN Finish(p, getCartByUser(0))
       ELSE IF Len(local[p].userCart.cartItems) = 0
       THEN Finish(p, ApiError(400, "Cart is Empty"))
       ELSE Goto(p, "co_address",
                 [local[p] EXCEPT
                     !.address = hasSetNonDefaultAddress(userObj[local[p].user])])
    /\ UNCHANGED <<carts, users, calls, paid, nonPositiveAdded>>

\* lines 180-189 without the test of line 181
checkout_address_noAddressCheck(p) ==
    /\ pc[p] = "co_address"
    /\ Goto(p, "co_bill",
            [local[p] EXCEPT !.totalBill = reduce(local[p].userCart.cartItems, 0)])
    /\ UNCHANGED <<carts, users, calls, paid, nonPositiveAdded>>

\* lines 180-189: the await of line 180 ends; the test of line 181; the reduce of
\* line 187 runs and checkout waits for its value
checkout_address(p) ==
    /\ pc[p] = "co_address"
    /\ IF ~local[p].address
       THEN Finish(p, ApiError(400, "Address not set"))
       ELSE Goto(p, "co_bill",
                 [local[p] EXCEPT !.totalBill = reduce(local[p].userCart.cartItems, 0)])
    /\ UNCHANGED <<carts, users, calls, paid, nonPositiveAdded>>

\* lines 187-199 without the test of line 193
checkout_bill_noBalanceCheck(p) ==
    /\ pc[p] = "co_bill"
    /\ LET o == local[p].user
           totalBill == local[p].totalBill
       IN  GotoWith(p, "co_saveCart",
                    [local[p] EXCEPT
                        !.delta = [kind |-> "set", items |-> <<>>,
                                   idx |-> 0, quantity |-> 0]],
                    [userObj EXCEPT
                        ![o].walletMoney = @ - totalBill,
                        ![o].modified = @ \/ totalBill # 0])
    /\ UNCHANGED <<carts, users, calls, paid, nonPositiveAdded>>

\* lines 187-199: the await of line 187 ends; the test of line 193 on the record
\* object as it is now; the object is debited (a walletMoney that changes becomes a
\* modified path), the cart document emptied, and userCart.save() sent
checkout_bill(p) ==
    /\ pc[p] = "co_bill"
    /\ LET o == local[p].user
           totalBill == local[p].totalBill
       IN  IF totalBill > userObj[o].walletMoney
           THEN Finish(p, ApiError(400, "Insuficient Balance"))
           ELSE GotoWith(p, "co_saveCart",
                         [local[p] EXCEPT
                             !.delta = [kind |-> "set", items |-> <<>>,
                                        idx |-> 0, quantity |-> 0]],
                         [userObj EXCEPT
                             ![o].walletMoney = @ - totalBill,
                             ![o].modified = @ \/ totalBill # 0])
    /\ UNCHANGED <<carts, users, calls, paid, nonPositiveAdded>>

\* lines 199-200: userCart.save() answers; user.save() is sent with the modified
\* paths of the record object as they are now. mongoose rejects a save() of a
\* document that has a save() in flight (ParallelSaveError).
checkout_saveCart(p) ==
    /\ pc[p] = "co_saveCart"
    /\ \E stored \in BOOLEAN :
         IF stored /\ ~VersionConflict(local[p].userCart, local[p].delta)
         THEN /\ carts' = CartSave(local[p].userCart, local[p].delta)
              /\ LET o == local[p].user IN
                 IF userObj[o].saving
                 THEN Finish(p, DbError("Can't save() the same doc multiple times in parallel"))
                 ELSE GotoWith(p, "co_saveUser",
                               [local[p] EXCEPT
                                   !.userDelta = [modified |-> userObj[o].modified,
                                                  walletMoney |-> userObj[o].walletMoney]],
                               [userObj EXCEPT ![o].saving = TRUE])
         ELSE /\ Finish(p, DbError("save failed"))
              /\ UNCHANGED carts
    /\ UNCHANGED <<users, calls, paid, nonPositiveAdded>>

\* lines 200-201: user.save() answers; return userCart. A save that succeeds leaves
\* the record object without modified paths; a save the database fails rejects,
\* whether it had a modified path to send or not.
checkout_saveUser(p) ==
    /\ pc[p] = "co_saveUser"
    /\ LET o == local[p].user
           d == local[p].userDelta
       IN  \E stored \in BOOLEAN :
             IF stored
             THEN /\ users' = UserSave(local[p].email, d)
                  /\ paid' = [paid EXCEPT ![local[p].email] = @ + local[p].totalBill]
                  /\ FinishWith(p, Resolved,
                                [userObj EXCEPT ![o].saving = FALSE,
                                                ![o].modified = FALSE])
             ELSE /\ FinishWith(p, DbError("save failed"),
                                [userObj EXCEPT ![o].saving = FALSE])
                  /\ UNCHANGED <<users, paid>>
    /\ UNCHANGED <<carts, calls, nonPositiveAdded>>

\* ---------------------------------------------------------------- setAddress
\* PUT /v1/users/:userId: the user's address is stored
setAddress ==
    \E email \in Emails, address \in Addresses :
        /\ address # users[email].address
        /\ users' = [users EXCEPT ![email].address = address]
        /\ UNCHANGED <<carts, userObj, pc, call, local, result, calls, paid, nonPositiveAdded>>

\* ---------------------------------------------------------------- the response is sent
Return(p) ==
    /\ pc[p] = "done"
    /\ pc' = [pc EXCEPT ![p] = "idle"]
    /\ result' = [result EXCEPT ![p] = NoResult]
    /\ UNCHANGED <<carts, users, userObj, call, local, calls, paid, nonPositiveAdded>>

\* ---------------------------------------------------------------- specifications
Init ==
    /\ carts = <<>>
    /\ users = [e \in Emails |-> [walletMoney |-> DefaultWallet,
                                  address |-> DefaultAddress]]
    /\ userObj = [o \in Procs |-> NoUser]
    /\ pc = [p \in Procs |-> "idle"]
    /\ call = [p \in Procs |-> NoCall]
    /\ local = [p \in Procs |-> NoLocal]
    /\ result = [p \in Procs |-> NoResult]
    /\ calls = 0
    /\ paid = [e \in Emails |-> 0]
    /\ nonPositiveAdded = FALSE

\* a request arrives
Start(p) ==
    \/ addProductToCart_findProduct(p)
    \/ updateProductInCart_findProduct(p)
    \/ deleteProductFromCart_start(p)
    \/ getCartByUser_start(p)
    \/ checkout_start(p)

\* a call in flight runs to its next await
Step(p) ==
    \/ addProductToCart_findCart(p)
    \/ addProductToCart_create(p)
    \/ addProductToCart_save(p)
    \/ updateProductInCart_findCart(p)
    \/ updateProductInCart_save(p)
    \/ deleteProductFromCart_findCart(p)
    \/ deleteProductFromCart_save(p)
    \/ getCartByUser_findCart(p)
    \/ checkout_getCart(p)
    \/ checkout_cart(p)
    \/ checkout_address(p)
    \/ checkout_bill(p)
    \/ checkout_saveCart(p)
    \/ checkout_saveUser(p)
    \/ Return(p)

\* calls interleave at their awaits
Next ==
    \/ \E p \in Procs : Start(p) \/ Step(p)
    \/ setAddress
Spec == Init /\ [][Next]_vars

\* one call at a time: a request arrives only when no other call is in flight
NextSeq ==
    \/ \E p \in Procs : (Quiet(p) /\ Start(p)) \/ Step(p)
    \/ (NoneInFlight /\ setAddress)
SpecSeq == Init /\ [][NextSeq]_vars

\* ---------------------------------------------------------------- properties
TheEmail == CHOOSE e \in Emails : TRUE

\* the call p takes a step
Moves(p) == pc'[p] # pc[p]

\* the call p finishes in this step
Finishes(p) == pc[p] # "done" /\ pc'[p] = "done"

\* the ids of the carts of the email in the collection cs
IdsIn(cs, email) == {i \in 1..Len(cs) : cs[i].email = email}

\* the line items of the first cart of the email in the collection cs (none if it has no cart)
ItemsIn(cs, email) ==
    IF IdsIn(cs, email) = {} THEN <<>>
    ELSE cs[CHOOSE i \in IdsIn(cs, email) : \A j \in IdsIn(cs, email) : i <= j].cartItems

\* the line items of the cart Cart.findOne finds for the email now
PersistedItems(email) == ItemsIn(carts, email)

\* sum over the line items of quantity x product cost
SumOfLineItems(items) ==
    LET S[i \in 0..Len(items)] ==
            IF i = 0 THEN 0
            ELSE S[i - 1] + items[i].quantity * items[i].product.cost
    IN  S[Len(items)]

\* the messages of checkout's four guards
PreconditionMessages ==
    {"User does not have a cart", "Cart is Empty", "Address not set", "Insuficient Balance"}

AlreadyInCart ==
    "Product already in cart. Use the cart sidebar to update or remove product from cart"

\* C1: every checkout call, a failed write included, ends with both effects persisted
\* (wallet debited by the total and cart cleared) or with neither. Stated for calls
\* that run one at a time, so that the persisted state moves only by the call itself.
C1_CheckoutAllOrNothing ==
    [][\A p \in Procs :
        (call[p].op = "checkout" /\ Finishes(p) /\ pc[p] \in {"co_saveCart", "co_saveUser"})
        => LET id == local[p].userCart.id
               before == local[p].userCart.cartItems
               wallet == userObj[local[p].user].walletMoney + local[p].totalBill
               email == local[p].email
           IN  \/ /\ carts'[id].cartItems = <<>>
                  /\ users'[email].walletMoney = wallet - SumOfLineItems(before)
               \/ /\ carts'[id].cartItems = before
                  /\ users'[email].walletMoney = wallet]_vars

\* C2: deleteProductFromCart for a user who has a cart, with a product that is not a
\* line item of that cart, fails with BadRequest "Product not in cart".
C2_DeleteAbsentProductFails ==
    [][\A p \in Procs :
        (/\ pc[p] = "del_findCart" /\ Moves(p)
         /\ call[p].op = "deleteProductFromCart"
         /\ CartFindOne(local[p].email) # 0
         /\ ItemsOf(PersistedItems(local[p].email), call[p].productId) = <<>>)
        => /\ pc'[p] = "done"
           /\ result'[p].status = "error"
           /\ result'[p].code = 400
           /\ result'[p].message = "Product not in cart"]_vars

\* C3 (as claimed): every line item stored in a cart has quantity > 0.
C3_StoredQuantitiesPositive ==
    \A i \in 1..Len(carts) : \A k \in 1..Len(carts[i].cartItems) :
        carts[i].cartItems[k].quantity > 0

\* C3 (amended): as long as addProductToCart, which stores the quantity it is given,
\* has only been called with quantities > 0, every line item stored in a cart has
\* quantity > 0, whatever quantities updateProductInCart is called with.
C3_PositiveUnlessAddedNonPositive ==
    ~nonPositiveAdded => C3_StoredQuantitiesPositive

\* no addProductToCart call had a quantity <= 0, and an updateProductInCart call with
\* a quantity <= 0 has removed its line item in memory and is about to save
C3_Witness ==
    /\ ~nonPositiveAdded
    /\ \E p \in Procs :
         /\ pc[p] = "del_save"
         /\ call[p].op = "updateProductInCart"
         /\ call[p].quantity <= 0
         /\ local[p].delta.kind = "set"
         /\ Len(local[p].delta.items) < Len(local[p].userCart.cartItems)

\* C4: no persisted cart holds two line items of the same product.
C4_NoDuplicateProducts ==
    \A i \in 1..Len(carts) : \A j, k \in 1..Len(carts[i].cartItems) :
        j # k => carts[i].cartItems[j].product.id # carts[i].cartItems[k].product.id

\* C5: with calls running one at a time, a checkout that returns leaves walletMoney at
\* its value before minus the sum over the cart's line items of quantity x cost, and
\* the cart without line items.
C5_CheckoutDebitsAndClears ==
    /\ [](\A p \in Procs :
            pc[p] \in {"co_saveCart"}
            => /\ local[p].userCart.cartItems = PersistedItems(local[p].email)
               /\ local[p].userCart.cartItems # <<>>
               /\ hasSetNonDefaultAddress(users[local[p].email])
               /\ SumOfLineItems(local[p].userCart.cartItems)
                     <= users[local[p].email].walletMoney
               /\ userObj[local[p].user].walletMoney =
                     users[local[p].email].walletMoney
                        - SumOfLineItems(local[p].userCart.cartItems))
    /\ [][\A p \in Procs :
            (pc[p] = "co_saveUser" /\ Finishes(p) /\ result'[p].status = "ok")
            => LET email == local[p].email IN
               /\ users'[email].walletMoney =
                     users[email].walletMoney - SumOfLineItems(local[p].userCart.cartItems)
               /\ IdsIn(carts', email) # {}
               /\ ItemsIn(carts', email) = <<>>]_vars

\* the scenario of the specification: wallet 500, one item of cost 100 and quantity 2,
\* checkout returned: wallet 300, cart empty
C5_Witness ==
    \E p \in Procs :
        /\ pc[p] = "done"
        /\ result[p].op = "checkout"
        /\ result[p].status = "ok"
        /\ paid[TheEmail] = 200
        /\ users[TheEmail].walletMoney = 300
        /\ CartFindOne(TheEmail) # 0
        /\ PersistedItems(TheEmail) = <<>>

\* C6: a checkout whose precondition fails (no cart, no line item, default address,
\* total above walletMoney) throws the error of that precondition, and the persisted
\* wallet and carts, and the walletMoney of the user record, are as they were; the
\* four guards run, in this order, before the first change: a checkout that goes on
\* to change the records and to write has passed all four.
C6_FailedCheckoutChangesNothing ==
    /\ [][\A p \in Procs :
            (pc[p] \in {"co_getCart", "co_cart", "co_address", "co_bill"} /\ Moves(p))
            => LET o == local[p].user
                   items == local[p].userCart.cartItems
               IN  /\ UNCHANGED <<carts, users>>
                   /\ pc[p] = "co_getCart"
                         => (local'[p].userCart = NoCart <=> CartFindOne(local[p].email) = 0)
                   /\ pc[p] = "co_cart"
                         => IF local[p].userCart = NoCart
                            THEN /\ pc'[p] = "done"
                                 /\ result'[p].code = 404
                                 /\ result'[p].message = "User does not have a cart"
                            ELSE IF Len(items) = 0
                            THEN /\ pc'[p] = "done"
                                 /\ result'[p].code = 400
                                 /\ result'[p].message = "Cart is Empty"
                            ELSE pc'[p] = "co_address"
                   /\ pc[p] = "co_address"
                         => IF userObj[o].address = DefaultAddress
                            THEN /\ pc'[p] = "done"
                                 /\ result'[p].code = 400
                                 /\ result'[p].message = "Address not set"
                            ELSE pc'[p] = "co_bill"
                   /\ pc[p] = "co_bill"
                         => IF SumOfLineItems(items) > userObj[o].walletMoney
                            THEN /\ pc'[p] = "done"
                                 /\ result'[p].code = 400
                                 /\ result'[p].message = "Insuficient Balance"
                            ELSE pc'[p] = "co_saveCart"
                   /\ pc'[p] # "co_saveCart"
                         => \/ userObj'[o] = NoUser
                            \/ userObj'[o].walletMoney = userObj[o].walletMoney]_vars
    /\ [][\A p \in Procs :
            (call[p].op = "checkout" /\ Finishes(p)
             /\ result'[p].message \in PreconditionMessages)
            => /\ pc[p] \in {"co_cart", "co_address", "co_bill"}
               /\ UNCHANGED <<carts, users>>]_vars

\* a checkout was refused for its balance and the cart still holds its line items
C6_Witness ==
    \E p \in Procs :
        /\ pc[p] = "done"
        /\ result[p].op = "checkout"
        /\ result[p].message = "Insuficient Balance"
        /\ PersistedItems(TheEmail) # <<>>
        /\ users[TheEmail].walletMoney = DefaultWallet

\* C7: with calls running one at a time, addProductToCart of a catalog product that is
\* not in the user's cart (the cart may be absent) goes on to store, and returns, the
\* previous line items followed by one new line item with that product and quantity;
\* with the product already in the cart it fails with BadRequest and the carts are
\* unchanged.
C7_AddAppendsOnce ==
    /\ [][\A p \in Procs :
            (pc[p] \in {"add_findCart", "add_create"} /\ Moves(p))
            => LET email == local[p].email
                   present == ItemsOf(PersistedItems(email), call[p].productId) # <<>>
               IN  /\ (present /\ pc[p] = "add_findCart")
                         => /\ pc'[p] = "done"
                            /\ result'[p].code = 400
                            /\ result'[p].message = AlreadyInCart
                            /\ UNCHANGED carts
                   /\ ~present
                         => \/ pc'[p] \in {"add_create", "add_save"}
                            \/ pc'[p] = "done" /\ result'[p].code = 500
                   /\ ItemsIn(carts', email) = ItemsIn(carts, email)]_vars
    /\ [][\A p \in Procs :
            (pc[p] = "add_save" /\ Finishes(p) /\ result'[p].status = "ok")
            => LET email == local[p].email
                   item == [product |-> ProductFindOne(call[p].productId),
                            quantity |-> call[p].quantity]
               IN  /\ ProductFindOne(call[p].productId) \in Products
                   /\ ItemsIn(carts', email) = Append(ItemsIn(carts, email), item)
                   /\ InMemory(local[p].userCart, local[p].delta) = ItemsIn(carts', email)
                   /\ Len(ItemsOf(ItemsIn(carts', email), call[p].productId)) = 1
                   /\ Cardinality(IdsIn(carts', email)) = 1]_vars

\* a cart holds two line items and the call adding one of them again was refused
C7_Witness ==
    \E p \in Procs :
        /\ pc[p] = "done"
        /\ result[p].op = "addProductToCart"
        /\ result[p].message = AlreadyInCart
        /\ Len(PersistedItems(TheEmail)) = 2

\* C8: the persisted walletMoney of every user is >= 0.
C8_WalletNonNegative ==
    \A e \in Emails : users[e].walletMoney >= 0

\* checkouts have spent the whole wallet
C8_Witness ==
    \E e \in Emails : users[e].walletMoney = 0 /\ paid[e] >= DefaultWallet

\* C9: there is at most one persisted cart per user email.
C9_OneCartPerEmail ==
    \A e \in Emails : Cardinality(CartIdsOf(e)) <= 1

\* C10: once every call has finished, walletMoney is the initial walletMoney minus the
\* sum of the bills of the checkout calls that returned.
C10_NoCheckoutLost ==
    (\A p \in Procs : pc[p] \in {"idle", "done"})
    => \A e \in Emails : users[e].walletMoney = DefaultWallet - paid[e]

====
